---- MODULE Spec2Model ----
(***************************************************************************)
(* A model of cinemabot's search-and-presentation core:                    *)
(*   src/api.py              Rating, BaseMovie, CinemaLink, Movie,         *)
(*                           format_description, SearchMovieAPI,           *)
(*                           JustWatchSearchMovieAPI                       *)
(*   src/inline_keyboard.py  WrappedInlineKeyboardMarkup                   *)
(*   src/main.py             search_for_item_list (and an earlier copy of  *)
(*                           the classes of api.py)                        *)
(*                                                                         *)
(* Python values are modelled as follows.                                  *)
(*   str      a sequence of one-character strings                          *)
(*   JSON     an object is a record of its possible keys; a key that is    *)
(*            absent holds <<>> and a key that is present holds <<v>>      *)
(*   dict     built by the program: a sequence of [key, value] records in  *)
(*            insertion order (see DictSet)                                *)
(*   Optional None is <<>> and a value v is <<v>>                          *)
(*   a call   either Return(v) or Raise(e)                                 *)
(* JSON values have the types the catalog gives them (strings, integers,   *)
(* lists, objects); a value of another type is outside the model.          *)
(***************************************************************************)
EXTENDS Integers, Sequences, FiniteSets, TLC

VARIABLES
    \* WrappedInlineKeyboardMarkup
    symbols_limit,      \* self.symbols_limit
    row_width,          \* self.row_width (count_limit)
    inline_keyboard,    \* self.inline_keyboard: the rows
    add_args,           \* history: the buttons of the latest add call
    add_before,         \* history: inline_keyboard before the latest add call
    add_calls,          \* history: number of add calls so far
    \* Rating.from_json
    rating_json,        \* the score entry handed to from_json
    rating_out,         \* the outcome of the call, Pending before it
    \* Movie.__init__
    film_json,          \* the detail record handed to Movie(...)
    movie_out,          \* the outcome of the construction, Pending before it
    \* JustWatchSearchMovieAPI.provider_name
    providers,          \* self.providers: provider id -> provider record
    pn_id,              \* the provider_id of the latest provider_name call
    pn_out,             \* the outcome of that call, Pending before the first
    \* format_description
    movie,              \* the Movie handed to format_description
    description,        \* the outcome of the call, Pending before it
    \* the catalog, base_search, search_for_item and search_for_item_list
    search_response,    \* what jw.search_for_item(query) answers
    details,            \* what jw.get_title(id, ...) answers, per id
    pc,                 \* where the request handler stands
    pending,            \* base_search: the results the generator has not reached
    yielded,            \* history: the BaseMovies the generator yielded
    base_result,        \* search_for_item: the candidate at hand
    details_calls,      \* history: the movie_details calls issued
    sfi_out,            \* the outcome of search_for_item, Pending before it ends
    base_movies         \* search_for_item_list: the materialised results

kbVars == <<symbols_limit, row_width, inline_keyboard, add_args, add_before, add_calls>>

ratingVars == <<rating_json, rating_out>>

movieVars == <<film_json, movie_out>>

providerVars == <<providers, pn_id, pn_out>>

formatVars == <<movie, description>>

searchVars ==
    <<search_response, details, pc, pending, yielded, base_result, details_calls,
      sfi_out, base_movies>>

vars == <<kbVars, ratingVars, movieVars, providerVars, formatVars, searchVars>>

\* ------------------------------------------------------------------ bounds

MaxSymbolsLimit == 2
MaxCountLimit == 2
MaxLabel == 2
MaxButtons == 3
MaxAddCalls == 2
MaxPrefix == 2
MaxOffers == 4
MaxProviders == 3
MaxRatings == 2
MaxItems == 3

\* base_movies[:10]
ListLimit == 10

\* ------------------------------------------------------- Python data model

NoneVal == <<>>

Some(v) == <<v>>

\* "key" in json, json["key"]
Has(json, key) == json[key] # <<>>

Get(json, key) == json[key][1]

KeyError(key) == [type |-> "KeyError", key |-> key]

\* The outcome of a call that has not been made yet
Pending == [raised |-> FALSE, pending |-> TRUE]

Return(v) == [raised |-> FALSE, value |-> v]

Raise(e) == [raised |-> TRUE, exc |-> e]

Max(a, b) == IF a >= b THEN a ELSE b

Min(a, b) == IF a <= b THEN a ELSE b

\* All sequences over S of length 0..n
SeqsUpTo(S, n) == UNION {[1..k -> S] : k \in 0..n}

\* The string made of n copies of the character c
Rep(c, n) == [i \in 1..n |-> c]

\* ------------------------------------------ WrappedInlineKeyboardMarkup.add

\* types.InlineKeyboardButton(text, callback_data=...)
Labels == {Rep("x", n) : n \in 0..MaxLabel}

Buttons == [text : Labels, callback_data : {"p", "q"}]

\* AddStep with the count_limit test left out
AddStep_NoCountCheck(st, button, sl, rw) ==
    IF st.row_len + Len(button.text) <= sl
    THEN [st EXCEPT !.row = Append(st.row, button),
                    !.row_len = st.row_len + Len(button.text)]
    ELSE [kb |-> Append(st.kb, st.row),
          row |-> <<button>>,
          row_len |-> Len(button.text)]

\* AddStep that starts the next row without the button that did not fit
AddStep_DropsOverflow(st, button, sl, rw) ==
    IF st.row_len + Len(button.text) <= sl /\ Len(st.row) + 1 <= rw
    THEN [st EXCEPT !.row = Append(st.row, button),
                    !.row_len = st.row_len + Len(button.text)]
    ELSE [kb |-> Append(st.kb, st.row),
          row |-> <<>>,
          row_len |-> 0]

\* One iteration of the for loop; st holds the locals and the keyboard.
AddStep(st, button, sl, rw) ==
    IF st.row_len + Len(button.text) <= sl /\ Len(st.row) + 1 <= rw
    THEN [st EXCEPT !.row = Append(st.row, button),
                    !.row_len = st.row_len + Len(button.text)]
    ELSE [kb |-> Append(st.kb, st.row),
          row |-> <<button>>,
          row_len |-> Len(button.text)]

RECURSIVE AddLoop(_, _, _, _, _)
AddLoop(st, args, i, sl, rw) ==
    IF i > Len(args) THEN st
    ELSE AddLoop(AddStep(st, args[i], sl, rw), args, i + 1, sl, rw)

\* add that appends the last row only when it holds a button
add_SkipsEmptyLastRow(kb, args, sl, rw) ==
    LET st == AddLoop([kb |-> kb, row |-> <<>>, row_len |-> 0], args, 1, sl, rw)
    IN  IF st.row = <<>> THEN st.kb ELSE Append(st.kb, st.row)

\* The rows held by the keyboard after add(*args)
add(kb, args, sl, rw) ==
    LET st == AddLoop([kb |-> kb, row |-> <<>>, row_len |-> 0], args, 1, sl, rw)
    IN  Append(st.kb, st.row)

KbInit ==
    /\ symbols_limit \in 1..MaxSymbolsLimit
    /\ row_width \in 1..MaxCountLimit
    /\ inline_keyboard = <<>>
    /\ add_args = <<>>
    /\ add_before = <<>>
    /\ add_calls = 0

KbIdle ==
    /\ symbols_limit = 1
    /\ row_width = 1
    /\ inline_keyboard = <<>>
    /\ add_args = <<>>
    /\ add_before = <<>>
    /\ add_calls = 0

RECURSIVE Flatten(_)
Flatten(rows) == IF rows = <<>> THEN <<>> ELSE Head(rows) \o Flatten(Tail(rows))

Add ==
    /\ add_calls < MaxAddCalls
    /\ \E args \in SeqsUpTo(Buttons, MaxButtons - Len(Flatten(inline_keyboard))) :
        /\ inline_keyboard' = add(inline_keyboard, args, symbols_limit, row_width)
        /\ add_args' = args
    /\ add_before' = inline_keyboard
    /\ add_calls' = add_calls + 1
    /\ UNCHANGED <<symbols_limit, row_width>>
    /\ UNCHANGED <<ratingVars, movieVars, providerVars, formatVars, searchVars>>

KbNext == Add

\* ---------------------------------------------------------------- strings

\* s.endswith(suffix)
EndsWith(s, suffix) ==
    /\ Len(s) >= Len(suffix)
    /\ SubSeq(s, Len(s) - Len(suffix) + 1, Len(s)) = suffix

\* s[:-n] for n > 0
DropLast(s, n) == SubSeq(s, 1, Max(Len(s) - n, 0))

StrScore == <<"s", "c", "o", "r", "e">>

StrColonScore == <<":", "s", "c", "o", "r", "e">>

\* --------------------------------------------------------- Rating.from_json

from_json(json) ==
    IF ~Has(json, "provider_type") \/ ~Has(json, "value") THEN NoneVal
    ELSE LET provider == Get(json, "provider_type")
         IN  IF ~EndsWith(provider, StrScore) THEN NoneVal
             ELSE Some([name |-> DropLast(provider, Len(StrColonScore)),
                        score |-> Get(json, "value")])

\* The score entries of the catalog's "scoring" list
ProviderTypes ==
    {p \o s : p \in SeqsUpTo({"i", "m"}, MaxPrefix),
              s \in {<<>>, StrColonScore, StrScore, <<"_">> \o StrScore,
                     <<":", "v", "o", "t", "e", "s">>, <<":", "s", "c", "o", "r">>,
                     StrColonScore \o <<"s">>}}

RatingJsons ==
    [provider_type : {<<>>} \cup {<<t>> : t \in ProviderTypes},
     value : {<<>>, <<7>>, <<10>>}]

RatingInit ==
    /\ rating_json \in RatingJsons
    /\ rating_out = Pending

RatingIdle ==
    /\ rating_json = [provider_type |-> <<>>, value |-> <<>>]
    /\ rating_out = Pending

FromJson ==
    /\ rating_out = Pending
    /\ rating_out' = Return(from_json(rating_json))
    /\ UNCHANGED rating_json
    /\ UNCHANGED <<kbVars, movieVars, providerVars, formatVars, searchVars>>

RatingNext == FromJson

\* ------------------------------------------------------- BaseMovie.__init__

\* [rating for rating_json in scoring if from_json(rating_json) is not None]
RECURSIVE ParseRatings(_)
ParseRatings(scoring) ==
    IF scoring = <<>> THEN <<>>
    ELSE LET rating == from_json(Head(scoring))
         IN  (IF rating # NoneVal THEN <<rating[1]>> ELSE <<>>)
             \o ParseRatings(Tail(scoring))

BaseMovieInit(json) ==
    IF ~Has(json, "id") THEN Raise(KeyError("id"))
    ELSE IF ~Has(json, "title") THEN Raise(KeyError("title"))
    ELSE IF ~Has(json, "object_type") THEN Raise(KeyError("object_type"))
    ELSE Return([id |-> Get(json, "id"),
                 title |-> Get(json, "title"),
                 object_type |-> Get(json, "object_type"),
                 original_release_year |-> json.original_release_year,
                 ratings |-> IF Has(json, "scoring")
                             THEN ParseRatings(Get(json, "scoring"))
                             ELSE <<>>])

\* ------------------------------------------------------ CinemaLink.__init__

CinemaLinkInit(json) ==
    IF ~Has(json, "provider_id") THEN Raise(KeyError("provider_id"))
    ELSE IF ~Has(json, "urls") THEN Raise(KeyError("urls"))
    ELSE IF ~Has(Get(json, "urls"), "standard_web") THEN Raise(KeyError("standard_web"))
    ELSE Return([provider_id |-> Get(json, "provider_id"),
                 url |-> Get(Get(json, "urls"), "standard_web")])

\* ------------------------------------------------------------ Python dicts

\* A dict is its items in insertion order.
DictHas(d, k) == \E i \in 1..Len(d) : d[i].key = k

DictGet(d, k) == d[CHOOSE i \in 1..Len(d) : d[i].key = k].value

\* d[k] = v that moves a key already present to the end
DictSet_MovesToEnd(d, k, v) ==
    Append(SelectSeq(d, LAMBDA item : item.key # k), [key |-> k, value |-> v])

\* d[k] = v: a key already present keeps its place and takes the new value
DictSet(d, k, v) ==
    IF DictHas(d, k)
    THEN [i \in 1..Len(d) |-> IF d[i].key = k THEN [key |-> k, value |-> v] ELSE d[i]]
    ELSE Append(d, [key |-> k, value |-> v])

\* list(d.values())
DictValues(d) == [i \in 1..Len(d) |-> d[i].value]

\* ----------------------------------------------------------- Movie.__init__

\* The loop over film_json["offers"]: a malformed offer is passed over.
RECURSIVE OffersLoop(_, _)
OffersLoop(offers, list) ==
    IF list = <<>> THEN offers
    ELSE LET cinema_link == CinemaLinkInit(Head(list))
         IN  OffersLoop(IF cinema_link.raised THEN offers
                        ELSE DictSet(offers, cinema_link.value.provider_id,
                                     cinema_link.value),
                        Tail(list))

MovieInit(json) ==
    LET base == BaseMovieInit(json)
    IN  IF base.raised THEN base
        ELSE IF ~Has(json, "short_description") THEN Raise(KeyError("short_description"))
        ELSE IF ~Has(json, "poster") THEN Raise(KeyError("poster"))
        ELSE Return([id |-> base.value.id,
                     title |-> base.value.title,
                     object_type |-> base.value.object_type,
                     original_release_year |-> base.value.original_release_year,
                     ratings |-> base.value.ratings,
                     short_description |-> Get(json, "short_description"),
                     poster |-> Get(json, "poster"),
                     offers |-> IF Has(json, "offers")
                                THEN DictValues(OffersLoop(<<>>, Get(json, "offers")))
                                ELSE <<>>])

\* The catalog's records
OfferProviderIds == {1, 2}

Urls == {<<"u">>, <<"v">>}

Offer(provider_id, urls) == [provider_id |-> provider_id, urls |-> urls]

\* Well-formed offers, and offers without provider_id, without urls and
\* without urls.standard_web
OfferJsons ==
    {Offer(<<i>>, <<[standard_web |-> <<u>>]>>) : i \in OfferProviderIds, u \in Urls}
    \cup {Offer(<<>>, <<[standard_web |-> <<<<"u">>>>]>>),
          Offer(<<1>>, <<>>),
          Offer(<<1>>, <<[standard_web |-> <<>>]>>)}

FilmKeys ==
    {"id", "title", "object_type", "original_release_year", "scoring",
     "short_description", "poster", "offers"}

\* A complete detail record
FullFilm(id, offers) ==
    [id |-> <<id>>,
     title |-> <<<<"T">>>>,
     object_type |-> <<<<"m">>>>,
     original_release_year |-> <<1999>>,
     scoring |-> <<<<[provider_type |-> <<<<"i">> \o StrColonScore>>, value |-> <<7>>]>>>>,
     short_description |-> <<<<"d">>>>,
     poster |-> <<<<"/", "p">>>>,
     offers |-> offers]

\* json without the keys of missing
Without(json, missing) == [k \in DOMAIN json |-> IF k \in missing THEN <<>> ELSE json[k]]

FilmJsons ==
    {Without(FullFilm(1, offers), missing) :
        offers \in {<<>>} \cup {<<list>> : list \in SeqsUpTo(OfferJsons, MaxOffers)},
        missing \in {{}} \cup {{k} : k \in FilmKeys \ {"offers"}}}

MovieVarsInit ==
    /\ film_json \in FilmJsons
    /\ movie_out = Pending

MovieIdle ==
    /\ film_json = FullFilm(1, <<>>)
    /\ movie_out = Pending

NewMovie ==
    /\ movie_out = Pending
    /\ movie_out' = MovieInit(film_json)
    /\ UNCHANGED film_json
    /\ UNCHANGED <<kbVars, ratingVars, providerVars, formatVars, searchVars>>

MovieNext == NewMovie

\* ------------------------------------ JustWatchSearchMovieAPI.provider_name

\* {provider["id"]: provider for provider in self.jw.get_providers()}
RECURSIVE BuildProviders(_, _)
BuildProviders(d, list) ==
    IF list = <<>> THEN d
    ELSE BuildProviders(DictSet(d, Get(Head(list), "id"), Head(list)), Tail(list))

\* The loop that logs the known providers: provider['clear_name'] raises
\* KeyError at the first record without the key.
LogKnownProviders(d) ==
    IF \E i \in 1..Len(d) : ~Has(d[i].value, "clear_name")
    THEN Raise(KeyError("clear_name"))
    ELSE Return(NoneVal)

provider_name(d, provider_id) ==
    IF ~DictHas(d, provider_id) THEN LogKnownProviders(d)
    ELSE IF ~Has(DictGet(d, provider_id), "clear_name") THEN Return(NoneVal)
    ELSE Return(Some(Get(DictGet(d, provider_id), "clear_name")))

ProviderIds == {1, 2, 3}

ProviderJsons ==
    [id : {<<i>> : i \in ProviderIds},
     clear_name : {<<>>, <<<<"N">>>>, <<<<"M">>>>}]

\* The ids provider_name is asked for: the catalog's and one it does not know
LookupIds == ProviderIds \cup {4}

ProviderInit ==
    /\ \E list \in SeqsUpTo(ProviderJsons, MaxProviders) :
        providers = BuildProviders(<<>>, list)
    /\ pn_id = 0
    /\ pn_out = Pending

ProviderIdle ==
    /\ providers = <<>>
    /\ pn_id = 0
    /\ pn_out = Pending

ProviderName ==
    /\ \E provider_id \in LookupIds :
        /\ pn_id' = provider_id
        /\ pn_out' = provider_name(providers, provider_id)
    /\ UNCHANGED providers
    /\ UNCHANGED <<kbVars, ratingVars, movieVars, formatVars, searchVars>>

ProviderNext == ProviderName

\* ------------------------------------------------------- format_description

LowerLetters ==
    <<"a", "b", "c", "d", "e", "f", "g", "h", "i", "j", "k", "l", "m",
      "n", "o", "p", "q", "r", "s", "t", "u", "v", "w", "x", "y", "z">>

UpperLetters ==
    <<"A", "B", "C", "D", "E", "F", "G", "H", "I", "J", "K", "L", "M",
      "N", "O", "P", "Q", "R", "S", "T", "U", "V", "W", "X", "Y", "Z">>

IsLower(c) == \E i \in 1..Len(LowerLetters) : LowerLetters[i] = c

IsUpper(c) == \E i \in 1..Len(UpperLetters) : UpperLetters[i] = c

ToUpper(c) == UpperLetters[CHOOSE i \in 1..Len(LowerLetters) : LowerLetters[i] = c]

ToLower(c) == LowerLetters[CHOOSE i \in 1..Len(UpperLetters) : UpperLetters[i] = c]

\* s.title(): a letter that follows a letter is lowercased, any other letter
\* is uppercased
RECURSIVE TitleFrom(_, _)
TitleFrom(s, previous_is_cased) ==
    IF s = <<>> THEN <<>>
    ELSE LET c == Head(s)
         IN  IF IsLower(c)
             THEN <<IF previous_is_cased THEN c ELSE ToUpper(c)>> \o TitleFrom(Tail(s), TRUE)
             ELSE IF IsUpper(c)
             THEN <<IF previous_is_cased THEN ToLower(c) ELSE c>> \o TitleFrom(Tail(s), TRUE)
             ELSE <<c>> \o TitleFrom(Tail(s), FALSE)

Title(s) == TitleFrom(s, FALSE)

Digits == <<"0", "1", "2", "3", "4", "5", "6", "7", "8", "9">>

\* str(n) for an integer n >= 0
RECURSIVE IntToStr(_)
IntToStr(n) ==
    IF n < 10 THEN <<Digits[n + 1]>>
    ELSE IntToStr(n \div 10) \o <<Digits[(n % 10) + 1]>>

\* sep.join(parts)
RECURSIVE Join(_, _)
Join(parts, sep) ==
    IF parts = <<>> THEN <<>>
    ELSE IF Len(parts) = 1 THEN parts[1]
    ELSE parts[1] \o sep \o Join(Tail(parts), sep)

\* Rating.__str__
RatingStr(rating) == Title(rating.name) \o <<":", " ">> \o IntToStr(rating.score)

BoldOpen == <<"<", "b", ">">>

BoldClose == <<"<", "/", "b", ">">>

\* format_description with an empty part between title and ratings
format_description_BlankAfterTitle(m) ==
    LET name_line ==
            m.title \o (IF m.original_release_year # NoneVal
                        THEN <<" ", "(">> \o IntToStr(m.original_release_year[1]) \o <<")">>
                        ELSE <<>>)
    IN  Join(<<BoldOpen \o name_line \o BoldClose,
               <<>>,
               Join([i \in 1..Len(m.ratings) |-> RatingStr(m.ratings[i])], <<",", " ">>),
               <<>>,
               m.short_description,
               <<>>>>,
             <<"\n">>)

format_description(m) ==
    LET name_line ==
            m.title \o (IF m.original_release_year # NoneVal
                        THEN <<" ", "(">> \o IntToStr(m.original_release_year[1]) \o <<")">>
                        ELSE <<>>)
    IN  Join(<<BoldOpen \o name_line \o BoldClose,
               Join([i \in 1..Len(m.ratings) |-> RatingStr(m.ratings[i])], <<",", " ">>),
               <<>>,
               m.short_description,
               <<>>>>,
             <<"\n">>)

\* The ratings of a movie: names as from_json leaves them; scores are the
\* catalog's integer scores.
Ratings == [name : {<<"i", "m">>, <<"t", "M", "_", "x">>}, score : {7, 10}]

Movies ==
    [id : {1},
     title : {<<"T">>, <<"T", " ", "2">>},
     object_type : {<<"m">>},
     original_release_year : {<<>>, <<1999>>, <<7>>},
     ratings : SeqsUpTo(Ratings, MaxRatings),
     short_description : {<<>>, <<"d">>, <<"d", "\n", "e">>},
     poster : {<<"/", "p">>},
     offers : {<<>>}]

FormatInit ==
    /\ movie \in Movies
    /\ description = Pending

FormatIdle ==
    /\ movie = MovieInit(FullFilm(1, <<>>)).value
    /\ description = Pending

FormatDescription ==
    /\ description = Pending
    /\ description' = Return(format_description(movie))
    /\ UNCHANGED movie
    /\ UNCHANGED <<kbVars, ratingVars, movieVars, providerVars, searchVars>>

FormatNext == FormatDescription

\* -------------------------------------- JustWatchSearchMovieAPI.base_search

\* A generator that ends at the first entry BaseMovie(...) raises on
GenNext_StopsAtMalformed(list) ==
    IF list = <<>> \/ BaseMovieInit(Head(list)).raised
    THEN [stop |-> TRUE, rest |-> <<>>]
    ELSE [stop |-> FALSE, item |-> BaseMovieInit(Head(list)).value, rest |-> Tail(list)]

\* The generator resumed inside the for loop over results: it passes over
\* every entry BaseMovie(...) raises KeyError on and yields the next
\* BaseMovie, or ends.
RECURSIVE GenNext(_)
GenNext(list) ==
    IF list = <<>> THEN [stop |-> TRUE, rest |-> <<>>]
    ELSE LET base == BaseMovieInit(Head(list))
         IN  IF base.raised THEN GenNext(Tail(list))
             ELSE [stop |-> FALSE, item |-> base.value, rest |-> Tail(list)]

\* The results the generator iterates once the catalog has answered; none
\* when "items" is missing or empty
ResultsOf(results) ==
    IF ~Has(results, "items") \/ Get(results, "items") = <<>> THEN <<>>
    ELSE Get(results, "items")

\* Everything the generator yields from list on
RECURSIVE Drain(_)
Drain(list) ==
    LET next == GenNext(list)
    IN  IF next.stop THEN <<>> ELSE <<next.item>> \o Drain(next.rest)

\* ------------------------------------------- SearchMovieAPI.search_for_item

\* A KeyError from movie_details ends the search with None
AfterDetails_GivesUp(outcome) ==
    IF outcome.raised THEN [pc |-> "done", out |-> Return(NoneVal)]
    ELSE [pc |-> "done", out |-> Return(Some(outcome.value))]

\* try: return await self.movie_details(...)  except KeyError: pass
AfterDetails(outcome) ==
    IF outcome.raised THEN [pc |-> "iterating", out |-> Pending]
    ELSE [pc |-> "done", out |-> Return(Some(outcome.value))]

CatalogIds == {1, 2}

\* A search hit of the catalog
Hit(id) == Without(FullFilm(id, <<>>), {"short_description"})

SearchEntries ==
    {Without(Hit(id), missing) :
        id \in CatalogIds, missing \in {{}, {"id"}, {"title"}, {"object_type"}}}

SearchResponses ==
    [items : {<<>>} \cup {<<list>> : list \in SeqsUpTo(SearchEntries, MaxItems)}]

DetailJsons(id) ==
    {Without(FullFilm(id, <<>>), missing) :
        missing \in {{}, {"short_description"}, {"poster"}}}

SearchInit ==
    /\ search_response \in SearchResponses
    /\ \E d1 \in DetailJsons(1), d2 \in DetailJsons(2) :
        details = [id \in CatalogIds |-> IF id = 1 THEN d1 ELSE d2]
    /\ pc = "idle"
    /\ pending = <<>>
    /\ yielded = <<>>
    /\ base_result = NoneVal
    /\ details_calls = <<>>
    /\ sfi_out = Pending
    /\ base_movies = Pending

SearchIdle ==
    /\ search_response = [items |-> <<>>]
    /\ details = [id \in CatalogIds |-> FullFilm(id, <<>>)]
    /\ pc = "idle"
    /\ pending = <<>>
    /\ yielded = <<>>
    /\ base_result = NoneVal
    /\ details_calls = <<>>
    /\ sfi_out = Pending
    /\ base_movies = Pending

\* search_for_item asks the generator for its first item; base_search sends
\* the search to the catalog and waits for the answer.
SearchForItem ==
    /\ pc = "idle"
    /\ pc' = "searching"
    /\ UNCHANGED <<search_response, details, pending, yielded, base_result,
                   details_calls, sfi_out, base_movies>>
    /\ UNCHANGED <<kbVars, ratingVars, movieVars, providerVars, formatVars>>

\* The catalog's answer reaches base_search.
BaseSearchResponse ==
    /\ pc = "searching"
    /\ pending' = ResultsOf(search_response)
    /\ pc' = "iterating"
    /\ UNCHANGED <<search_response, details, yielded, base_result, details_calls,
                   sfi_out, base_movies>>
    /\ UNCHANGED <<kbVars, ratingVars, movieVars, providerVars, formatVars>>

\* The generator yields the next candidate and search_for_item asks the
\* catalog for its details, or the generator ends and the loop's else branch
\* returns None.
BaseSearchNext ==
    /\ pc = "iterating"
    /\ LET next == GenNext(pending)
       IN  /\ pending' = next.rest
           /\ IF next.stop
              THEN /\ pc' = "done"
                   /\ sfi_out' = Return(NoneVal)
                   /\ UNCHANGED <<yielded, base_result, details_calls>>
              ELSE /\ pc' = "fetching"
                   /\ yielded' = Append(yielded, next.item)
                   /\ base_result' = Some(next.item)
                   /\ details_calls' =
                        Append(details_calls,
                               [movie_id |-> next.item.id,
                                object_type |-> next.item.object_type])
                   /\ UNCHANGED sfi_out
    /\ UNCHANGED <<search_response, details, base_movies>>
    /\ UNCHANGED <<kbVars, ratingVars, movieVars, providerVars, formatVars>>

\* movie_details: the catalog's record arrives and Movie(film_json) is built
\* or raises KeyError.
MovieDetailsResponse ==
    /\ pc = "fetching"
    /\ LET after == AfterDetails(MovieInit(details[base_result[1].id]))
       IN  /\ pc' = after.pc
           /\ sfi_out' = after.out
    /\ UNCHANGED <<search_response, details, pending, yielded, base_result,
                   details_calls, base_movies>>
    /\ UNCHANGED <<kbVars, ratingVars, movieVars, providerVars, formatVars>>

\* search_for_item_list: [base_movie async for base_movie in base_search(query)][:10]
SearchForItemList ==
    /\ pc = "idle"
    /\ LET all == Drain(ResultsOf(search_response))
       IN  /\ yielded' = all
           /\ base_movies' = Return(SubSeq(all, 1, Min(Len(all), ListLimit)))
    /\ pc' = "listed"
    /\ UNCHANGED <<search_response, details, pending, base_result, details_calls, sfi_out>>
    /\ UNCHANGED <<kbVars, ratingVars, movieVars, providerVars, formatVars>>

SearchNext ==
    \/ SearchForItem
    \/ BaseSearchResponse
    \/ BaseSearchNext
    \/ MovieDetailsResponse
    \/ SearchForItemList

\* ----------------------------------------------------------- specifications

\* One specification per component: its state starts as constructed, with its
\* inputs drawn from the bounded sets, and the other components stay idle.

InitKeyboard ==
    KbInit /\ RatingIdle /\ MovieIdle /\ ProviderIdle /\ FormatIdle /\ SearchIdle

SpecKeyboard == InitKeyboard /\ [][KbNext]_vars

InitRating ==
    KbIdle /\ RatingInit /\ MovieIdle /\ ProviderIdle /\ FormatIdle /\ SearchIdle

SpecRating == InitRating /\ [][RatingNext]_vars

InitMovie ==
    KbIdle /\ RatingIdle /\ MovieVarsInit /\ ProviderIdle /\ FormatIdle /\ SearchIdle

SpecMovie == InitMovie /\ [][MovieNext]_vars

InitProvider ==
    KbIdle /\ RatingIdle /\ MovieIdle /\ ProviderInit /\ FormatIdle /\ SearchIdle

SpecProvider == InitProvider /\ [][ProviderNext]_vars

InitFormat ==
    KbIdle /\ RatingIdle /\ MovieIdle /\ ProviderIdle /\ FormatInit /\ SearchIdle

SpecFormat == InitFormat /\ [][FormatNext]_vars

InitSearch ==
    KbIdle /\ RatingIdle /\ MovieIdle /\ ProviderIdle /\ FormatIdle /\ SearchInit

SpecSearch == InitSearch /\ [][SearchNext]_vars

\* ------------------------------------------------------ claims on the model

\* C5: from_json produces a Rating only for an entry whose provider_type ends
\* with ':score', and the name of a kept entry is its provider_type with
\* exactly the trailing ':score' removed.
C5_OnlyColonScoreKept ==
    (rating_out # Pending /\ Has(rating_json, "provider_type")) =>
        LET provider == Get(rating_json, "provider_type")
            rating == rating_out.value
        IN  /\ ~rating_out.raised
            /\ ~EndsWith(provider, StrColonScore) => rating = NoneVal
            /\ rating # NoneVal => rating[1].name \o StrColonScore = provider

\* The offers list of the detail record, its well-formed entries, and the
\* offers of the Movie constructed from it
OffersJson == IF Has(film_json, "offers") THEN Get(film_json, "offers") ELSE <<>>

WellFormed(offer) ==
    /\ offer.provider_id # <<>>
    /\ offer.urls # <<>>
    /\ offer.urls[1].standard_web # <<>>

WellFormedOffers == SelectSeq(OffersJson, WellFormed)

PidOf(offer) == offer.provider_id[1]

FirstOccurrence(pid) ==
    CHOOSE i \in 1..Len(WellFormedOffers) :
        /\ PidOf(WellFormedOffers[i]) = pid
        /\ \A j \in 1..(i - 1) : PidOf(WellFormedOffers[j]) # pid

LastOccurrence(pid) ==
    CHOOSE i \in 1..Len(WellFormedOffers) :
        /\ PidOf(WellFormedOffers[i]) = pid
        /\ \A j \in (i + 1)..Len(WellFormedOffers) : PidOf(WellFormedOffers[j]) # pid

MovieBuilt == movie_out # Pending /\ ~movie_out.raised

\* C4: the offers of a constructed Movie hold exactly one entry per distinct
\* provider_id of the well-formed offers, with the url of the last occurrence
\* of that provider_id, ordered by the first occurrence of each provider_id;
\* malformed offers are dropped.
C4_OffersDeduplicated ==
    MovieBuilt =>
        LET offers == movie_out.value.offers
        IN  /\ \A i, j \in 1..Len(offers) :
                    i # j => offers[i].provider_id # offers[j].provider_id
            /\ {offers[i].provider_id : i \in 1..Len(offers)}
                    = {PidOf(WellFormedOffers[i]) : i \in 1..Len(WellFormedOffers)}
            /\ \A i \in 1..Len(offers) :
                    offers[i].url
                        = WellFormedOffers[LastOccurrence(offers[i].provider_id)]
                              .urls[1].standard_web[1]
            /\ \A i, j \in 1..Len(offers) :
                    i < j => FirstOccurrence(offers[i].provider_id)
                                < FirstOccurrence(offers[j].provider_id)

\* A Movie was constructed from offers holding a malformed entry and a
\* provider_id that occurs twice with different urls, the second time after
\* another provider_id.
C4_Witness ==
    /\ MovieBuilt
    /\ Len(WellFormedOffers) < Len(OffersJson)
    /\ Len(movie_out.value.offers) = 2
    /\ LET first == movie_out.value.offers[1].provider_id
           second == movie_out.value.offers[2].provider_id
       IN  /\ LastOccurrence(first) > FirstOccurrence(second)
           /\ WellFormedOffers[FirstOccurrence(first)].urls
                # WellFormedOffers[LastOccurrence(first)].urls

\* C6: provider_name never raises: it returns an absent name for a
\* provider_id that is not in the directory, whatever the directory holds,
\* and the display name of a known provider.
C6_ProviderNameNeverRaises ==
    pn_out # Pending =>
        /\ ~pn_out.raised
        /\ ~DictHas(providers, pn_id) => pn_out.value = NoneVal
        /\ (DictHas(providers, pn_id) /\ Has(DictGet(providers, pn_id), "clear_name"))
                => pn_out.value = Some(Get(DictGet(providers, pn_id), "clear_name"))

\* text.split(sep) for a one-character sep
RECURSIVE SplitFrom(_, _, _)
SplitFrom(text, sep, current) ==
    IF text = <<>> THEN <<current>>
    ELSE IF Head(text) = sep THEN <<current>> \o SplitFrom(Tail(text), sep, <<>>)
    ELSE SplitFrom(Tail(text), sep, Append(current, Head(text)))

Lines(text) == SplitFrom(text, "\n", <<>>)

\* The title line: the title, with the year in parentheses when there is one,
\* in bold
TitleLine ==
    BoldOpen \o movie.title
    \o (IF movie.original_release_year = <<>> THEN <<>>
        ELSE <<" ", "(">> \o IntToStr(movie.original_release_year[1]) \o <<")">>)
    \o BoldClose

\* The rating summaries, comma-joined
RatingsLine ==
    Join([i \in 1..Len(movie.ratings) |->
             Title(movie.ratings[i].name) \o <<":", " ">> \o IntToStr(movie.ratings[i].score)],
         <<",", " ">>)

\* C7 as claimed: the lines of format_description(movie) are the title line,
\* a blank line, the rating summaries, a blank line, the short description
\* and a trailing blank line.
C7_BlankLineAfterTitle ==
    description # Pending =>
        Lines(description.value)
            = <<TitleLine, <<>>, RatingsLine, <<>>>>
              \o Lines(movie.short_description) \o <<<<>>>>

\* C7 as amended: the lines of format_description(movie) are the title line,
\* directly followed by the rating summaries (an empty line when there are
\* none), a blank line, the short description and a trailing blank line.
C7_RatingsFollowTitle ==
    description # Pending =>
        Lines(description.value)
            = <<TitleLine, RatingsLine, <<>>>>
              \o Lines(movie.short_description) \o <<<<>>>>

\* A movie with a year, two ratings and a description was formatted.
C7_Witness ==
    /\ description # Pending
    /\ movie.original_release_year # <<>>
    /\ Len(movie.ratings) = 2
    /\ movie.short_description # <<>>
    /\ Len(Lines(description.value)) >= 5

\* The entries of the catalog's result list, those that have id, title and
\* object_type, and the candidates they stand for
Items == IF search_response.items = <<>> THEN <<>> ELSE search_response.items[1]

Complete(entry) == entry.id # <<>> /\ entry.title # <<>> /\ entry.object_type # <<>>

CompleteItems == SelectSeq(Items, Complete)

\* The generator has ended: the list was materialised, or search_for_item ran
\* out of candidates.
Exhausted == pc = "listed" \/ (pc = "done" /\ sfi_out = Return(NoneVal))

\* C8: base_search yields one BaseMovie for each entry of the result list that
\* has id, title and object_type, in the catalog's order, passing over every
\* other entry; an empty or missing result list yields nothing; no error is
\* raised.
C8_BaseSearchYieldsCompleteEntriesInOrder ==
    /\ Len(yielded) <= Len(CompleteItems)
    /\ \A i \in 1..Len(yielded) :
        /\ yielded[i].id = CompleteItems[i].id[1]
        /\ yielded[i].title = CompleteItems[i].title[1]
        /\ yielded[i].object_type = CompleteItems[i].object_type[1]
    /\ Exhausted => Len(yielded) = Len(CompleteItems)
    /\ pc = "listed" => base_movies = Return(yielded)

\* The result list was materialised from a malformed entry followed by two
\* complete ones with different ids.
C8_Witness ==
    /\ pc = "listed"
    /\ Len(Items) = 3
    /\ ~Complete(Items[1])
    /\ Len(yielded) = 2
    /\ yielded[1].id # yielded[2].id

\* Whether movie_details succeeds for the i-th candidate
DetailsOk(i) == ~MovieInit(details[CompleteItems[i].id[1]]).raised

CallFor(i) ==
    [movie_id |-> CompleteItems[i].id[1], object_type |-> CompleteItems[i].object_type[1]]

\* C1 as claimed: when base_search yields a candidate and movie_details fails
\* for the first one, search_for_item returns an absent result and issues
\* movie_details for no later candidate.
C1_FirstCandidateOrNothing ==
    (pc = "done" /\ CompleteItems # <<>> /\ ~DetailsOk(1)) =>
        /\ sfi_out = Return(NoneVal)
        /\ details_calls = <<CallFor(1)>>

\* C1 as amended: search_for_item tries the candidates in order and returns
\* the Movie of the first candidate whose movie_details succeeds, issuing
\* movie_details for no candidate after that one; it returns an absent result
\* only when movie_details fails for every candidate or there is none.
C1_FirstSuccessfulCandidate ==
    pc = "done" =>
        LET ok == {i \in 1..Len(CompleteItems) : DetailsOk(i)}
        IN  IF ok = {}
            THEN /\ sfi_out = Return(NoneVal)
                 /\ details_calls = [i \in 1..Len(CompleteItems) |-> CallFor(i)]
            ELSE LET k == CHOOSE i \in ok : \A j \in ok : i <= j
                 IN  /\ sfi_out
                            = Return(Some(MovieInit(details[CompleteItems[k].id[1]]).value))
                     /\ details_calls = [i \in 1..k |-> CallFor(i)]

\* search_for_item ended with a Movie although movie_details failed for the
\* first candidate.
C1_Witness ==
    /\ pc = "done"
    /\ CompleteItems # <<>>
    /\ ~DetailsOk(1)
    /\ sfi_out # Return(NoneVal)
    /\ Len(details_calls) = 2

\* --------------------------------------------------- claims on the keyboard

\* The rows the latest add call appended
Appended == SubSeq(inline_keyboard, Len(add_before) + 1, Len(inline_keyboard))

RECURSIVE LabelSum(_)
LabelSum(row) == IF row = <<>> THEN 0 ELSE Len(Head(row).text) + LabelSum(Tail(row))

\* C2: every row appended by one add call holds at most count_limit buttons,
\* and every appended row of two or more buttons has summed label length at
\* most symbols_limit.
C2_RowLimits ==
    add_calls > 0 =>
        \A i \in 1..Len(Appended) :
            /\ Len(Appended[i]) <= row_width
            /\ Len(Appended[i]) >= 2 => LabelSum(Appended[i]) <= symbols_limit

\* An add call packed two buttons into one row and put a button whose own
\* label exceeds symbols_limit into a row of its own.
C2_Witness ==
    /\ add_calls > 0
    /\ \E i \in 1..Len(Appended) : Len(Appended[i]) = 2
    /\ \E i \in 1..Len(Appended) :
        Len(Appended[i]) = 1 /\ LabelSum(Appended[i]) > symbols_limit

\* C3: the rows appended by one add call, concatenated in order, are exactly
\* the buttons passed to the call.
C3_RowsReproduceInput == add_calls > 0 => Flatten(Appended) = add_args

\* An add call got distinct buttons, one of them with a label longer than
\* symbols_limit, and spread them over more than one row.
C3_Witness ==
    /\ add_calls > 0
    /\ Len(add_args) = MaxButtons
    /\ \E i, j \in 1..Len(add_args) : add_args[i] # add_args[j]
    /\ \E i \in 1..Len(add_args) : Len(add_args[i].text) > symbols_limit
    /\ Len(Appended) > 1

\* C9: add appends an empty row only when its input sequence is empty: after
\* a call with a non-empty input no appended row is empty.
C9_NoEmptyRowForNonEmptyInput ==
    (add_calls > 0 /\ add_args # <<>>) =>
        \A i \in 1..Len(Appended) : Appended[i] # <<>>

\* C10: add called with no buttons appends exactly one row, which is empty,
\* and leaves the rows already in the keyboard unchanged.
C10_EmptyInputAppendsOneEmptyRow ==
    (add_calls > 0 /\ add_args = <<>>) =>
        /\ Len(inline_keyboard) = Len(add_before) + 1
        /\ inline_keyboard[Len(inline_keyboard)] = <<>>
        /\ SubSeq(inline_keyboard, 1, Len(add_before)) = add_before

\* add was called with no buttons on a keyboard that already held buttons.
C10_Witness ==
    /\ add_calls > 1
    /\ add_args = <<>>
    /\ Flatten(add_before) # <<>>
    /\ Len(inline_keyboard) = Len(add_before) + 1

====
